---- MODULE Spec2Model ----
(***************************************************************************)
(* A model of rreplay.py: the coordinator that launches the replay engine  *)
(* (rr), reads its notifications from a named pipe, spawns an injector     *)
(* per INJECT message, supervises the injectors and removes the shared     *)
(* artifacts (proc.out, the pipe) on the way out.                          *)
(*                                                                         *)
(* The coordinator is one flow of control, modelled by the position pc.    *)
(* rr, the injectors, the reported processes and the user's SIGINT are     *)
(* the environment; they run concurrently with it.                         *)
(***************************************************************************)
EXTENDS Integers, Sequences, FiniteSets, TLC

\* ---------------------------------------------------------------- bounds
MaxSubjects == 2      \* subject sections after the rr_dir section
MaxEvent == 2         \* event numbers are 1..MaxEvent
MaxMsgs == 2          \* complete lines rr writes to the pipe in one run

Events == 1..MaxEvent
Pids == {"100", "101"}            \* parts[4] of a message: a str
FirstPid == "100"
Verbs == {"INJECT", "DONT_INJECT"}

\* ------------------------------------------------------ values and helpers
NoPid == ""                       \* 'pid' not in s
NoRet == 2                        \* ret before the first subject is handled
NoExit == 2                       \* the process has not exited yet

\* s = {} ... s['other_procs'] = [] ; 'pid' and 'handle' are absent
NewSubject(ev) ==
  [event |-> ev, pid |-> NoPid, handle |-> FALSE, other_procs |-> <<>>]

NoSubject == NewSubject(0)

\* the state file <event>_state.json
NoStateFile == [st |-> "absent", config |-> NoSubject]
OrigStateFile == [st |-> "orig", config |-> NoSubject]

Msg(v, e, p) == [verb |-> v, event |-> e, pid |-> p]
NoMsg == Msg("", 0, NoPid)
Messages == {Msg(v, e, p) : v \in Verbs, e \in Events, p \in Pids}

\* what read(1) delivers: the text of a line before its terminator, or '\n'
Body(m) == [k |-> "body", m |-> m]
NL == [k |-> "nl", m |-> NoMsg]

\* the inputs: config.ini as found under the test directory
IniKinds == {"no_test_dir", "unreadable", "empty", "ok"}

RECURSIVE SeqsUpTo(_, _)
SeqsUpTo(S, n) ==
  IF n = 0 THEN {<<>>}
  ELSE LET shorter == SeqsUpTo(S, n - 1)
       IN shorter \cup {Append(q, x) : q \in {r \in shorter : Len(r) = n - 1}, x \in S}

\* Events are only compared with one another, so the sections are taken up
\* to an order-preserving renaming: the events in use are 1..k for some k.
Canonical(q) ==
  \A i \in 1..Len(q) : q[i] = 1 \/ \E j \in 1..Len(q) : q[j] = q[i] - 1

IniInputs ==
  {[kind |-> k, events |-> <<>>] : k \in IniKinds \ {"ok"}}
    \cup {[kind |-> "ok", events |-> q] :
            q \in {r \in SeqsUpTo(Events, MaxSubjects) : Canonical(r)}}

\* a state file is produced (externally) only for a configured event
Configured(cfg, e) == \E i \in 1..Len(cfg.events) : cfg.events[i] = e

\* subjects.sort(key=_sort_by_event): a stable sort on int(sub['event'])
RECURSIVE InsertByEvent(_, _)
InsertByEvent(sorted, s) ==
  IF sorted = <<>> THEN <<s>>
  ELSE IF s.event < Head(sorted).event THEN <<s>> \o sorted
  ELSE <<Head(sorted)>> \o InsertByEvent(Tail(sorted), s)

SortByEvent_Unsorted(subs) == subs

RECURSIVE SortByEvent(_)
SortByEvent(subs) ==
  IF subs = <<>> THEN <<>>
  ELSE InsertByEvent(SortByEvent(SubSeq(subs, 1, Len(subs) - 1)), subs[Len(subs)])

\* for i in sections: s = {...}; subjects.append(s)
ParseSections(events) == [i \in 1..Len(events) |-> NewSubject(events[i])]

\* if (len(sections) == 0): ... sys.exit(0)
NoOpportunities_Never(sections) == Len(sections) < 0

NoOpportunities(sections) == Len(sections) = 0

\* operating = [x for x in subjects if x['event'] == event]
Operating(subs, ev) == {i \in 1..Len(subs) : subs[i].event = ev}

\* s = operating[0]
FirstOperating_Last(subs, ev) ==
  CHOOSE i \in Operating(subs, ev) : \A j \in Operating(subs, ev) : i >= j

FirstOperating(subs, ev) ==
  CHOOSE i \in Operating(subs, ev) : \A j \in Operating(subs, ev) : i <= j

\* s['other_procs'].append(pid)
DontInjectUpdate_SetsPid(subs, i, p) ==
  [subs EXCEPT ![i].other_procs = Append(@, p), ![i].pid = p]

DontInjectUpdate(subs, i, p) ==
  [subs EXCEPT ![i].other_procs = Append(@, p)]

\* s['other_procs'][i] with i an element of the list: a list subscripted by a
\* str raises TypeError; by an int it may raise IndexError
SubscriptRaises_Never(lst, i) == FALSE

SubscriptRaises(lst, i) ==
  IF i \in STRING THEN TRUE ELSE i \notin 1..Len(lst)

\* if os.path.exists(f): os.unlink(f)   (os.unlink of a missing file raises)
UnlinkIfExists_NoCheck(exists) == [exists |-> FALSE, raised |-> ~exists]

UnlinkIfExists(exists) == [exists |-> FALSE, raised |-> FALSE]

\* json.dump(tmp, d) with tmp['config'] = s: a Popen object under 'handle'
\* is not serializable
Serializable(s) == ~s.handle

\* ---------------------------------------------------------------- state
VARIABLES
  pc,           \* position of the coordinator
  cret,         \* which call of cleanup() is (or was last) running
  exc,          \* the exception last raised, "none" if none
  intAt,        \* state of main() in which SIGINT was delivered, "none" if not
  exitCode,     \* exit status, NoExit while running
  dumped,       \* the interrupt handler printed proc.out
  ini,          \* the configuration input
  logExists,    \* consts.PROC_FILE (proc.out) exists
  pipeExists,   \* consts.RR_PIPE exists
  stateFile,    \* event -> contents of <event>_state.json
  subjects,     \* the list get_configuration returned
  rrSpawned,    \* execute_rr has spawned rr
  rrPipeMade,   \* rr has created its pipe
  rrClosed,     \* rr has closed its end of the pipe
  rrSent,       \* lines rr has written
  pipeBuf,      \* bytes written to the pipe and not yet read
  rrdump_pipe,  \* the module-level pipe handle is open
  buf,          \* get_message's buf
  message,      \* process_messages' message (<<>> is '')
  sIdx,         \* index of s = operating[0] in subjects
  alive,        \* pids util.process_is_alive reports alive
  killed,       \* pids os.kill has signalled
  inj,          \* subject index -> state of its injector process
  supIdx,       \* wait_on_handles: index of s in subjects
  kIdx,         \* wait_on_handles: index in s['other_procs']
  ret,          \* wait_on_handles: ret
  visited,      \* events of the subjects wait_on_handles has taken up
  reports       \* events printed in 'Injector for event:rec_pid ... failed'

vars == <<pc, cret, exc, intAt, exitCode, dumped, ini, logExists,
          pipeExists, stateFile, subjects, rrSpawned, rrPipeMade, rrClosed,
          rrSent, pipeBuf, rrdump_pipe, buf, message, sIdx, alive, killed,
          inj, supIdx, kIdx, ret, visited, reports>>

fsVars == <<logExists, pipeExists, stateFile>>
rrVars == <<rrSpawned, rrPipeMade, rrClosed, rrSent, pipeBuf>>
procVars == <<alive, killed, inj>>
outVars == <<visited, reports>>
ctlVars == <<cret, exc, intAt, exitCode, dumped>>
\* the local variables of get_message, process_messages, wait_on_handles
locals == <<buf, message, sIdx, supIdx, kIdx, ret>>

interrupted == intAt # "none"

Init ==
  /\ pc = "init"
  /\ cret = "none"
  /\ exc = "none"
  /\ intAt = "none"
  /\ exitCode = NoExit
  /\ dumped = FALSE
  /\ ini \in IniInputs
  /\ logExists \in BOOLEAN
  /\ pipeExists \in BOOLEAN
  /\ stateFile \in [Events -> {NoStateFile, OrigStateFile}]
  /\ \A e \in Events : stateFile[e] = OrigStateFile => Configured(ini, e)
  /\ subjects = <<>>
  /\ rrSpawned = FALSE
  /\ rrPipeMade = FALSE
  /\ rrClosed = FALSE
  /\ rrSent = 0
  /\ pipeBuf = <<>>
  /\ rrdump_pipe = FALSE
  /\ buf = <<>>
  /\ message = <<>>
  /\ sIdx = 0
  /\ alive = {}
  /\ killed = {}
  /\ inj = [i \in 1..MaxSubjects |-> "none"]
  /\ supIdx = 0
  /\ kIdx = 0
  /\ ret = NoRet
  /\ visited = <<>>
  /\ reports = <<>>

CleanupPcs == {"c_log", "c_pipe", "c_ret"}
DispatchPcs == {"gm_open", "gm_read", "pm_loop", "pm_alive", "pm_select",
                "pm_branch", "inj_setpid", "inj_write", "inj_spawn"}
SupervisePcs == {"sup_loop", "sup_wait", "sup_kill", "sup_report"}

\* the coordinator is inside the try block of __main__
InTry ==
  /\ pc \notin {"h_int", "h_exc", "exit"}
  /\ pc \in CleanupPcs => cret \in {"pre", "post"}

\* the state of main() the coordinator is in
Phase ==
  CASE pc = "init" -> "INIT"
    [] pc \in CleanupPcs /\ cret = "pre" -> "PRECLEANUP"
    [] pc \in {"check_test_dir", "load_config"} -> "LOAD_CONFIG"
    [] pc = "launch" -> "LAUNCH_REPLAY"
    [] pc \in DispatchPcs -> "DISPATCH"
    [] pc \in SupervisePcs -> "SUPERVISE"
    [] OTHER -> "POSTCLEANUP"

\* an exception unwinds the frames of the functions main() called: their
\* local variables are gone
Unwind ==
  /\ buf' = <<>>
  /\ message' = <<>>
  /\ sIdx' = 0
  /\ supIdx' = 0
  /\ kIdx' = 0
  /\ ret' = NoRet

\* an exception other than KeyboardInterrupt leaves the current statement:
\* inside the try block 'except Exception' takes it, inside a handler nothing
\* does and the interpreter exits with status 1
Raise(e) ==
  /\ exc' = e
  /\ Unwind
  /\ IF InTry
       THEN pc' = "h_exc" /\ exitCode' = exitCode
       ELSE pc' = "exit" /\ exitCode' = 1

\* sys.exit(code): SystemExit is not an Exception, no handler takes it
SysExit(code) ==
  /\ pc' = "exit"
  /\ exitCode' = code

\* ------------------------------------------------------------ main()
\* parse_args, then the first cleanup()
ParseArgs ==
  /\ pc = "init"
  /\ pc' = "c_log"
  /\ cret' = "pre"
  /\ UNCHANGED <<exc, intAt, exitCode, dumped, ini, fsVars, subjects,
                 rrVars, rrdump_pipe, locals, procVars, outVars>>

\* cleanup(): if os.path.exists(consts.PROC_FILE): os.unlink(consts.PROC_FILE)
CleanupLog ==
  /\ pc = "c_log"
  /\ LET r == UnlinkIfExists(logExists)
     IN IF r.raised
          THEN Raise("OSError") /\ UNCHANGED logExists
          ELSE /\ logExists' = r.exists
               /\ pc' = "c_pipe"
               /\ UNCHANGED <<exc, exitCode, locals>>
  /\ UNCHANGED <<cret, intAt, dumped, ini, pipeExists, stateFile,
                 subjects, rrVars, rrdump_pipe, procVars, outVars>>

\* cleanup(): if os.path.exists(consts.RR_PIPE): os.unlink(consts.RR_PIPE)
CleanupPipe ==
  /\ pc = "c_pipe"
  /\ LET r == UnlinkIfExists(pipeExists)
     IN IF r.raised
          THEN Raise("OSError") /\ UNCHANGED pipeExists
          ELSE /\ pipeExists' = r.exists
               /\ pc' = "c_ret"
               /\ UNCHANGED <<exc, exitCode, locals>>
  /\ UNCHANGED <<cret, intAt, dumped, ini, logExists, stateFile,
                 subjects, rrVars, rrdump_pipe, procVars, outVars>>

\* cleanup() returns to its caller: main() twice, the two except clauses
CleanupRet ==
  /\ pc = "c_ret"
  /\ CASE cret = "pre" -> pc' = "check_test_dir" /\ exitCode' = exitCode
       [] cret = "post" -> pc' = "main_ret" /\ exitCode' = exitCode
       [] cret = "int" -> SysExit(0)
       [] OTHER -> SysExit(1)
  /\ UNCHANGED <<cret, exc, intAt, dumped, ini, fsVars, subjects,
                 rrVars, rrdump_pipe, locals, procVars, outVars>>

\* if not os.path.exists(test_dir): ... sys.exit(1)
CheckTestDir ==
  /\ pc = "check_test_dir"
  /\ IF ini.kind = "no_test_dir"
       THEN SysExit(1) /\ exc' = "SystemExit"
       ELSE pc' = "load_config" /\ UNCHANGED <<exc, exitCode>>
  /\ UNCHANGED <<cret, intAt, dumped, ini, fsVars, subjects, rrVars,
                 rrdump_pipe, locals, procVars, outVars>>

\* rr_dir, subjects = get_configuration(test_dir + "/" + "config.ini")
GetConfiguration ==
  /\ pc = "load_config"
  /\ CASE ini.kind = "unreadable" ->
            Raise("IOError") /\ UNCHANGED subjects
       [] ini.kind = "empty" ->
            Raise("IndexError") /\ UNCHANGED subjects
       [] OTHER ->
            IF NoOpportunities(ini.events)
              THEN /\ SysExit(0)
                   /\ exc' = "SystemExit"
                   /\ UNCHANGED <<subjects, locals>>
              ELSE /\ subjects' = SortByEvent(ParseSections(ini.events))
                   /\ pc' = "launch"
                   /\ UNCHANGED <<exc, exitCode, locals>>
  /\ UNCHANGED <<cret, intAt, dumped, ini, fsVars, rrVars, rrdump_pipe,
                 procVars, outVars>>

\* execute_rr: open(consts.PROC_FILE, 'w'), subprocess.Popen(['rr', ...])
ExecuteRr ==
  /\ pc = "launch"
  /\ logExists' = TRUE
  /\ rrSpawned' = TRUE
  /\ pc' = "gm_open"
  /\ UNCHANGED <<ctlVars, ini, pipeExists, stateFile, subjects, rrPipeMade,
                 rrClosed, rrSent, pipeBuf, rrdump_pipe, locals, procVars,
                 outVars>>

\* main() returns; sys.exit(0)
MainReturn ==
  /\ pc = "main_ret"
  /\ SysExit(0)
  /\ UNCHANGED <<cret, exc, intAt, dumped, ini, fsVars, subjects,
                 rrVars, rrdump_pipe, locals, procVars, outVars>>

\* ------------------------------------------------------- get_message()
\* if not rrdump_pipe: wait until the pipe exists, open it; buf = ''
GetMessageOpen ==
  /\ pc = "gm_open"
  /\ rrdump_pipe \/ pipeExists
  /\ rrdump_pipe' = TRUE
  /\ buf' = <<>>
  /\ pc' = "gm_read"
  /\ UNCHANGED <<ctlVars, ini, fsVars, subjects, rrVars, message, sIdx,
                 supIdx, kIdx, ret, procVars, outVars>>

\* buf += rrdump_pipe.read(1): a byte, or nothing at end of input; return ''
\* if buf is still empty, buf if it now ends in '\n', else read again.
\* With rr's end closed and a line begun, every read adds nothing and
\* the loop never leaves (no step of the coordinator is enabled).
GetMessageRead_ReturnsAtEof ==
  /\ pc = "gm_read"
  /\ IF pipeBuf # <<>>
       THEN /\ pipeBuf' = Tail(pipeBuf)
            /\ buf' = Append(buf, Head(pipeBuf))
            /\ IF Head(pipeBuf) = NL
                 THEN message' = buf' /\ pc' = "pm_loop"
                 ELSE UNCHANGED <<message, pc>>
       ELSE /\ rrClosed
            /\ message' = <<>>
            /\ pc' = "pm_loop"
            /\ UNCHANGED <<pipeBuf, buf>>
  /\ UNCHANGED <<ctlVars, ini, fsVars, subjects, rrSpawned, rrPipeMade,
                 rrClosed, rrSent, rrdump_pipe, sIdx, supIdx, kIdx, ret,
                 procVars, outVars>>

GetMessageRead ==
  /\ pc = "gm_read"
  /\ IF pipeBuf # <<>>
       THEN /\ pipeBuf' = Tail(pipeBuf)
            /\ buf' = Append(buf, Head(pipeBuf))
            /\ IF Head(pipeBuf) = NL
                 THEN message' = buf' /\ pc' = "pm_loop"
                 ELSE UNCHANGED <<message, pc>>
       ELSE /\ rrClosed
            /\ buf = <<>>
            /\ message' = <<>>
            /\ pc' = "pm_loop"
            /\ UNCHANGED <<pipeBuf, buf>>
  /\ UNCHANGED <<ctlVars, ini, fsVars, subjects, rrSpawned, rrPipeMade,
                 rrClosed, rrSent, rrdump_pipe, sIdx, supIdx, kIdx, ret,
                 procVars, outVars>>

\* -------------------------------------------------- process_messages()
\* parts = message.split(' '): inject = parts[0][:-1], event = parts[2],
\* pid = parts[4]
CurMsg == message[1].m

\* while message != '': ... ; after the loop main() calls wait_on_handles
WhileMessage_ReadsAgain ==
  /\ pc = "pm_loop"
  /\ pc' = IF message # <<>> THEN "pm_alive" ELSE "gm_open"
  /\ UNCHANGED <<ctlVars, ini, fsVars, subjects, rrVars, rrdump_pipe,
                 locals, procVars, outVars>>

WhileMessage ==
  /\ pc = "pm_loop"
  /\ IF message # <<>>
       THEN pc' = "pm_alive" /\ UNCHANGED <<supIdx, buf, message, sIdx>>
       ELSE /\ pc' = "sup_loop"
            /\ supIdx' = 1
            /\ buf' = <<>>
            /\ message' = <<>>
            /\ sIdx' = 0
  /\ UNCHANGED <<ctlVars, ini, fsVars, subjects, rrVars, rrdump_pipe,
                 procVars, kIdx, ret, outVars>>

\* while not util.process_is_alive(pid): print('waiting...')
WaitAlive_NoWait ==
  /\ pc = "pm_alive"
  /\ pc' = "pm_select"
  /\ UNCHANGED <<ctlVars, ini, fsVars, subjects, rrVars, rrdump_pipe, locals,
                 procVars, outVars>>

WaitAlive ==
  /\ pc = "pm_alive"
  /\ CurMsg.pid \in alive
  /\ pc' = "pm_select"
  /\ UNCHANGED <<ctlVars, ini, fsVars, subjects, rrVars, rrdump_pipe, locals,
                 procVars, outVars>>

\* operating = [...]; s = operating[0]   (IndexError on an empty list)
SelectSubject_SkipsUnknown ==
  /\ pc = "pm_select"
  /\ IF Operating(subjects, CurMsg.event) = {}
       THEN pc' = "gm_open" /\ UNCHANGED <<exc, exitCode, locals>>
       ELSE /\ sIdx' = FirstOperating(subjects, CurMsg.event)
            /\ pc' = "pm_branch"
            /\ UNCHANGED <<exc, exitCode, buf, message, supIdx, kIdx, ret>>
  /\ UNCHANGED <<cret, intAt, dumped, ini, fsVars, subjects, rrVars,
                 rrdump_pipe, procVars, outVars>>

SelectSubject ==
  /\ pc = "pm_select"
  /\ IF Operating(subjects, CurMsg.event) = {}
       THEN Raise("IndexError")
       ELSE /\ sIdx' = FirstOperating(subjects, CurMsg.event)
            /\ pc' = "pm_branch"
            /\ UNCHANGED <<exc, exitCode, buf, message, supIdx, kIdx, ret>>
  /\ UNCHANGED <<cret, intAt, dumped, ini, fsVars, subjects, rrVars,
                 rrdump_pipe, procVars, outVars>>

\* if inject == 'INJECT': with open(s['injected_state_file'], 'r') as d:
\*   tmp = json.load(d)
InjectRead_SetsPidFirst ==
  /\ pc = "pm_branch"
  /\ CurMsg.verb = "INJECT"
  /\ subjects' = [subjects EXCEPT ![sIdx].pid = CurMsg.pid]
  /\ LET f == stateFile[subjects[sIdx].event]
     IN CASE f.st = "absent" -> Raise("IOError")
          [] f.st = "partial" -> Raise("ValueError")
          [] OTHER -> pc' = "inj_setpid" /\ UNCHANGED <<exc, exitCode, locals>>
  /\ UNCHANGED <<cret, intAt, dumped, ini, fsVars, rrVars,
                 rrdump_pipe, procVars, outVars>>

InjectRead ==
  /\ pc = "pm_branch"
  /\ CurMsg.verb = "INJECT"
  /\ LET f == stateFile[subjects[sIdx].event]
     IN CASE f.st = "absent" -> Raise("IOError")
          [] f.st = "partial" -> Raise("ValueError")
          [] OTHER -> pc' = "inj_setpid" /\ UNCHANGED <<exc, exitCode, locals>>
  /\ UNCHANGED <<cret, intAt, dumped, ini, fsVars, subjects, rrVars,
                 rrdump_pipe, procVars, outVars>>

\* s['pid'] = pid
InjectSetPid ==
  /\ pc = "inj_setpid"
  /\ subjects' = [subjects EXCEPT ![sIdx].pid = CurMsg.pid]
  /\ pc' = "inj_write"
  /\ UNCHANGED <<ctlVars, ini, fsVars, rrVars, rrdump_pipe, locals, procVars,
                 outVars>>

\* tmp['config'] = s; with open(s['injected_state_file'], 'w') as d:
\*   json.dump(tmp, d)
\* open(..., 'w') truncates the file; json.dump raises TypeError part-way
\* when s holds a Popen object
InjectWrite_SkipWrite ==
  /\ pc = "inj_write"
  /\ pc' = "inj_spawn"
  /\ UNCHANGED <<ctlVars, ini, fsVars, subjects, rrVars, rrdump_pipe, locals,
                 procVars, outVars>>

InjectWrite ==
  /\ pc = "inj_write"
  /\ LET s == subjects[sIdx]
     IN IF Serializable(s)
          THEN /\ stateFile' = [stateFile EXCEPT
                                  ![s.event] = [st |-> "rewritten", config |-> s]]
               /\ pc' = "inj_spawn"
               /\ UNCHANGED <<exc, exitCode, locals>>
          ELSE /\ stateFile' = [stateFile EXCEPT
                                  ![s.event] = [st |-> "partial", config |-> NoSubject]]
               /\ Raise("TypeError")
  /\ UNCHANGED <<cret, intAt, dumped, ini, logExists, pipeExists,
                 subjects, rrVars, rrdump_pipe, procVars, outVars>>

\* s['handle'] = subprocess.Popen(['inject', '--verbosity=40', ...])
InjectSpawn ==
  /\ pc = "inj_spawn"
  /\ subjects' = [subjects EXCEPT ![sIdx].handle = TRUE]
  /\ inj' = [inj EXCEPT ![sIdx] = "running"]
  /\ pc' = "gm_open"
  /\ UNCHANGED <<ctlVars, ini, fsVars, rrVars, rrdump_pipe, locals, alive,
                 killed, outVars>>

\* elif inject == 'DONT_INJECT': s['other_procs'].append(pid)
DontInject ==
  /\ pc = "pm_branch"
  /\ CurMsg.verb = "DONT_INJECT"
  /\ subjects' = DontInjectUpdate(subjects, sIdx, CurMsg.pid)
  /\ pc' = "gm_open"
  /\ UNCHANGED <<ctlVars, ini, fsVars, rrVars, rrdump_pipe, locals, procVars,
                 outVars>>

\* --------------------------------------------------- wait_on_handles()
\* for s in subjects: if 'handle' in s: ... else: print(...); ret = -1
\* after the last subject main() calls cleanup()
ForSubject ==
  /\ pc = "sup_loop"
  /\ IF supIdx > Len(subjects)
       THEN /\ pc' = "c_log"
            /\ cret' = "post"
            /\ supIdx' = 0
            /\ kIdx' = 0
            /\ ret' = NoRet
            /\ UNCHANGED visited
       ELSE /\ visited' = Append(visited, subjects[supIdx].event)
            /\ UNCHANGED <<cret, supIdx>>
            /\ IF subjects[supIdx].handle
                 THEN pc' = "sup_wait" /\ UNCHANGED <<ret, kIdx>>
                 ELSE pc' = "sup_kill" /\ ret' = -1 /\ kIdx' = 1
  /\ UNCHANGED <<exc, intAt, exitCode, dumped, ini, fsVars, subjects,
                 rrVars, rrdump_pipe, buf, message, sIdx, procVars, reports>>

\* ret = s['handle'].wait(): blocks until the injector has exited
WaitHandle ==
  /\ pc = "sup_wait"
  /\ inj[supIdx] \in {"exit0", "exit1"}
  /\ ret' = IF inj[supIdx] = "exit0" THEN 0 ELSE 1
  /\ kIdx' = 1
  /\ pc' = "sup_kill"
  /\ UNCHANGED <<ctlVars, ini, fsVars, subjects, rrVars, rrdump_pipe, buf,
                 message, sIdx, procVars, supIdx, outVars>>

\* for i in s['other_procs']:
\*   logger.debug("{} to be killed.".format(s['other_procs'][i]))
\*   try: os.kill(int(i), signal.SIGKILL)  except OSError: pass
KillOtherProcs ==
  /\ pc = "sup_kill"
  /\ LET op == subjects[supIdx].other_procs
     IN IF kIdx > Len(op)
          THEN /\ pc' = "sup_report"
               /\ UNCHANGED <<exc, exitCode, locals, alive, killed>>
          ELSE IF SubscriptRaises(op, op[kIdx])
                 THEN Raise("TypeError") /\ UNCHANGED <<alive, killed>>
                 ELSE /\ killed' = killed \cup {op[kIdx]}
                      /\ alive' = alive \ {op[kIdx]}
                      /\ kIdx' = kIdx + 1
                      /\ UNCHANGED <<pc, exc, exitCode, buf, message, sIdx,
                                     supIdx, ret>>
  /\ UNCHANGED <<cret, intAt, dumped, ini, fsVars, subjects, rrVars,
                 rrdump_pipe, inj, outVars>>

\* if ret != 0: print('Injector for event:rec_pid {}:{} failed' ...)
ReportFailure ==
  /\ pc = "sup_report"
  /\ reports' = IF ret # 0 THEN Append(reports, subjects[supIdx].event)
                ELSE reports
  /\ supIdx' = supIdx + 1
  /\ pc' = "sup_loop"
  /\ UNCHANGED <<ctlVars, ini, fsVars, subjects, rrVars, rrdump_pipe, buf,
                 message, sIdx, procVars, kIdx, ret, visited>>

\* ------------------------------------------------ the except clauses
\* except KeyboardInterrupt: with open('proc.out', 'r') as content_file:
\*   print(content_file.read()); then cleanup(); sys.exit(0)
\* open() of a missing proc.out raises IOError inside the handler
HandleInterrupt_KillsChildren ==
  /\ pc = "h_int"
  /\ IF logExists
       THEN /\ dumped' = TRUE
            /\ pc' = "c_log"
            /\ cret' = "int"
            /\ UNCHANGED <<exc, exitCode, locals>>
       ELSE Raise("IOError") /\ UNCHANGED <<dumped, cret>>
  /\ inj' = [i \in DOMAIN inj |-> IF inj[i] = "running" THEN "exit1" ELSE inj[i]]
  /\ UNCHANGED <<intAt, ini, fsVars, subjects, rrVars, rrdump_pipe,
                 alive, killed, outVars>>

HandleInterrupt ==
  /\ pc = "h_int"
  /\ IF logExists
       THEN /\ dumped' = TRUE
            /\ pc' = "c_log"
            /\ cret' = "int"
            /\ UNCHANGED <<exc, exitCode, locals>>
       ELSE Raise("IOError") /\ UNCHANGED <<dumped, cret>>
  /\ UNCHANGED <<intAt, ini, fsVars, subjects, rrVars, rrdump_pipe,
                 procVars, outVars>>

\* except Exception: cleanup(); sys.exit(1)
HandleException ==
  /\ pc = "h_exc"
  /\ pc' = "c_log"
  /\ cret' = "exc"
  /\ UNCHANGED <<exc, intAt, exitCode, dumped, ini, fsVars, subjects,
                 rrVars, rrdump_pipe, locals, procVars, outVars>>

\* ------------------------------------------------------- environment
\* What rr, the injectors and the reported processes do is seen by the
\* coordinator only where it reads the pipe, tests a pid, waits on a handle
\* or sends a signal; their steps are taken at those points.  rr's creation
\* of the pipe is seen through the file system at any time.
\* the user sends SIGINT while the try block runs: KeyboardInterrupt
Interrupt ==
  /\ InTry
  /\ intAt = "none"
  /\ intAt' = Phase
  /\ exc' = "KeyboardInterrupt"
  /\ Unwind
  /\ pc' = "h_int"
  /\ UNCHANGED <<cret, exitCode, dumped, ini, fsVars, subjects, rrVars,
                 rrdump_pipe, procVars, outVars>>

Running == pc # "exit"

\* rr creates the pipe get_message waits for
RrCreatePipe ==
  /\ Running
  /\ rrSpawned
  /\ ~rrPipeMade
  /\ rrPipeMade' = TRUE
  /\ pipeExists' = TRUE
  /\ UNCHANGED <<pc, ctlVars, ini, logExists, stateFile, subjects, rrSpawned,
                 rrClosed, rrSent, pipeBuf, rrdump_pipe, locals, procVars,
                 outVars>>

\* pids are only compared with one another: the first pid rr reports is
\* FirstPid, later ones are any
PidChoices(sent) == IF sent = 0 THEN {FirstPid} ELSE Pids

\* rr writes one line; the reader is blocked in read(1)
RrWrite(m) ==
  /\ pc = "gm_read"
  /\ rrdump_pipe
  /\ ~rrClosed
  /\ pipeBuf = <<>>
  /\ rrSent < MaxMsgs
  /\ m.pid \in PidChoices(rrSent)
  /\ pipeBuf' = <<Body(m), NL>>
  /\ rrSent' = rrSent + 1
  /\ UNCHANGED <<pc, ctlVars, ini, fsVars, subjects, rrSpawned, rrPipeMade,
                 rrClosed, rrdump_pipe, locals, procVars, outVars>>

\* rr ends in the middle of a line: some text without its terminator
RrWritePartial ==
  /\ pc = "gm_read"
  /\ rrdump_pipe
  /\ ~rrClosed
  /\ pipeBuf = <<>>
  /\ pipeBuf' = <<Body(NoMsg)>>
  /\ rrClosed' = TRUE
  /\ UNCHANGED <<pc, ctlVars, ini, fsVars, subjects, rrSpawned, rrPipeMade,
                 rrSent, rrdump_pipe, locals, procVars, outVars>>

\* rr closes its end of the pipe
RrClose ==
  /\ pc = "gm_read"
  /\ rrdump_pipe
  /\ ~rrClosed
  /\ pipeBuf = <<>>
  /\ rrClosed' = TRUE
  /\ UNCHANGED <<pc, ctlVars, ini, fsVars, subjects, rrSpawned, rrPipeMade,
                 rrSent, pipeBuf, rrdump_pipe, locals, procVars, outVars>>

\* the process rr reported appears
PidStart(p) ==
  /\ pc = "pm_alive"
  /\ p = CurMsg.pid
  /\ p \notin alive
  /\ alive' = alive \cup {p}
  /\ UNCHANGED <<pc, ctlVars, ini, fsVars, subjects, rrVars, rrdump_pipe,
                 locals, killed, inj, outVars>>

\* a process that was not injected has exited before it is signalled
PidExit(p) ==
  /\ pc = "sup_kill"
  /\ p \in alive
  /\ \E k \in 1..Len(subjects[supIdx].other_procs) :
        subjects[supIdx].other_procs[k] = p
  /\ alive' = alive \ {p}
  /\ UNCHANGED <<pc, ctlVars, ini, fsVars, subjects, rrVars, rrdump_pipe,
                 locals, killed, inj, outVars>>

\* an injector exits with status 0 or 1 while the coordinator is in wait()
InjectorExit(i, status) ==
  /\ pc = "sup_wait"
  /\ inj[i] = "running"
  /\ inj' = [inj EXCEPT ![i] = status]
  /\ UNCHANGED <<pc, ctlVars, ini, fsVars, subjects, rrVars, rrdump_pipe,
                 locals, alive, killed, outVars>>

Next ==
  \/ ParseArgs
  \/ CleanupLog
  \/ CleanupPipe
  \/ CleanupRet
  \/ CheckTestDir
  \/ GetConfiguration
  \/ ExecuteRr
  \/ MainReturn
  \/ GetMessageOpen
  \/ GetMessageRead
  \/ WhileMessage
  \/ WaitAlive
  \/ SelectSubject
  \/ InjectRead
  \/ InjectSetPid
  \/ InjectWrite
  \/ InjectSpawn
  \/ DontInject
  \/ ForSubject
  \/ WaitHandle
  \/ KillOtherProcs
  \/ ReportFailure
  \/ HandleInterrupt
  \/ HandleException
  \/ Interrupt
  \/ RrCreatePipe
  \/ \E m \in Messages : RrWrite(m)
  \/ RrWritePartial
  \/ RrClose
  \/ \E p \in Pids : PidStart(p)
  \/ \E p \in Pids : PidExit(p)
  \/ \E i \in 1..MaxSubjects, status \in {"exit0", "exit1"} : InjectorExit(i, status)

Spec == Init /\ [][Next]_vars

\* =================================================================
\* Properties
\* =================================================================
Exited == pc = "exit"

\* wait_on_handles has finished with subject i
SupDone(i) == supIdx > i \/ (supIdx = i /\ pc = "sup_report")

OtherProcsOf(i) ==
  {subjects[i].other_procs[k] : k \in 1..Len(subjects[i].other_procs)}

\* C1: during supervision every pid a DONT_INJECT message appended to a
\* subject's other_procs is sent SIGKILL, and wait_on_handles raises no
\* error, whether or not that process has exited.
C1_OtherProcsKilled ==
  /\ ~(exc = "TypeError" /\ visited # <<>>)
  /\ \A i \in 1..Len(subjects) : SupDone(i) => OtherProcsOf(i) \subseteq killed

\* C2: a subject's state file is rewritten with the reported pid under
\* 'config' strictly before its injector is spawned: no subject has a
\* handle while its state file is still absent or as produced externally,
\* and the step that spawns the injector finds the file already holding
\* the pid of the message and leaves the file alone.
C2_RewriteBeforeSpawn ==
  /\ [](\A i \in 1..Len(subjects) :
          subjects[i].handle =>
            stateFile[subjects[i].event].st \notin {"absent", "orig"})
  /\ [][\A i \in 1..Len(subjects) :
          (~subjects[i].handle /\ subjects'[i].handle) =>
            LET f == stateFile[subjects[i].event]
            IN /\ f.st = "rewritten"
               /\ f.config.pid = CurMsg.pid
               /\ f.config.pid = subjects[i].pid
               /\ inj[i] = "none"
               /\ stateFile' = stateFile]_vars

\* C2 witness: an injector runs and its subject's state file holds the pid
C2_InjectorRunning ==
  \E i \in 1..Len(subjects) :
    /\ subjects[i].handle
    /\ inj[i] = "running"
    /\ stateFile[subjects[i].event].st = "rewritten"
    /\ stateFile[subjects[i].event].config.pid = subjects[i].pid
    /\ subjects[i].pid \in Pids

\* C3: an interrupt received in any state of the coordinator leads to the
\* log being dumped, cleanup() being run by the handler and exit status 0.
C3_InterruptExitsZero ==
  (Exited /\ interrupted) => (exitCode = 0 /\ dumped /\ cret = "int")

\* C4: an interrupt received during process_messages or wait_on_handles
\* ends in exit status 0 with neither proc.out nor the pipe present.
C4_InterruptCleansUp ==
  (Exited /\ intAt \in {"DISPATCH", "SUPERVISE"}) =>
    (exitCode = 0 /\ ~logExists /\ ~pipeExists)

\* C5: a failure other than an interrupt that nothing handles locally ends
\* in cleanup() being run and exit status 1; an interrupt ends in status 0.
C5_FailureExitsOne ==
  Exited =>
    /\ interrupted => exitCode = 0
    /\ (~interrupted /\ exc \notin {"none", "SystemExit"}) =>
         (exitCode = 1 /\ cret = "exc")

\* C6: on every exit path cleanup() has been run and, at exit, neither
\* proc.out nor the pipe created during this run is present.
C6_NothingLeftAtExit ==
  Exited =>
    /\ cret # "none"
    /\ ~(logExists /\ rrSpawned)
    /\ ~(pipeExists /\ rrPipeMade)

\* C7: with no subject section after the rr_dir section rr is never
\* spawned, and the run (if not interrupted) exits with status 0 straight
\* out of get_configuration.
C7_ZeroSubjectsNoReplay ==
  (ini.kind = "ok" /\ Len(ini.events) = 0) =>
    /\ ~rrSpawned
    /\ pc \notin {"launch"} \cup DispatchPcs \cup SupervisePcs
    /\ (Exited /\ ~interrupted) =>
         (exitCode = 0 /\ exc = "SystemExit" /\ cret = "pre")

\* C7 witness: the zero-subject run has exited
C7_ZeroSubjectsExited ==
  /\ Exited
  /\ ini.kind = "ok"
  /\ ini.events = <<>>
  /\ ~interrupted
  /\ exitCode = 0

\* how many sections of the configuration have an event below / up to e
CountBelow(e) == Cardinality({k \in 1..Len(ini.events) : ini.events[k] < e})
CountUpTo(e) == Cardinality({k \in 1..Len(ini.events) : ini.events[k] <= e})

\* C8: wait_on_handles takes the subjects up in ascending event order
\* whatever the order of the sections (the k-th subject taken up has the
\* k-th smallest configured event); it waits only on the subject it has
\* taken up last and goes on only once that injector has exited, and every
\* kill and every failure report is for that subject.
C8_AscendingSupervision ==
  /\ [](\A k \in 1..Len(visited) :
          /\ k > 1 => visited[k - 1] <= visited[k]
          /\ CountBelow(visited[k]) < k
          /\ k <= CountUpTo(visited[k]))
  /\ [][/\ (pc = "sup_wait" /\ pc' = "sup_kill") =>
             (supIdx = Len(visited) /\ inj[Len(visited)] \in {"exit0", "exit1"})
        /\ reports' # reports =>
             reports' = Append(reports, visited[Len(visited)])
        /\ killed' # killed =>
             (killed' \ killed) \subseteq OtherProcsOf(Len(visited))
        /\ visited' # visited =>
             (pc = "sup_loop" /\ (visited # <<>> => SupDone(Len(visited))))]_vars

\* C8 witness: the sections are in descending order, the second subject's
\* injector has exited, and the supervisor is blocked on the first
C8_BlockedOnEarlier ==
  /\ pc = "sup_wait"
  /\ ini.events = <<2, 1>>
  /\ visited = <<1>>
  /\ inj[1] = "running"
  /\ inj[2] \in {"exit0", "exit1"}

\* C9: dispatching DONT_INJECT appends the pid to the other_procs of the
\* first subject with that event and changes nothing else: that subject's
\* pid and handle, every other subject, the state files and the set of
\* processes stay as they were.
C9_DontInjectFrame ==
  [][(pc = "pm_branch" /\ CurMsg.verb = "DONT_INJECT" /\ pc' = "gm_open") =>
       LET i == FirstOperating(subjects, CurMsg.event)
       IN /\ Len(subjects') = Len(subjects)
          /\ subjects'[i].other_procs = Append(subjects[i].other_procs, CurMsg.pid)
          /\ subjects'[i].pid = subjects[i].pid
          /\ subjects'[i].handle = subjects[i].handle
          /\ subjects'[i].event = subjects[i].event
          /\ \A j \in 1..Len(subjects) : j # i => subjects'[j] = subjects[j]
          /\ stateFile' = stateFile
          /\ inj' = inj
          /\ UNCHANGED <<rrSpawned, alive, killed, logExists, pipeExists>>]_vars

\* C9 witness: a DONT_INJECT for a subject that was injected before has
\* been dispatched, with another subject configured
C9_DontInjectDispatched ==
  /\ pc = "gm_open"
  /\ Len(subjects) = 2
  /\ \E i \in 1..Len(subjects) :
       /\ subjects[i].other_procs # <<>>
       /\ subjects[i].handle
       /\ message # <<>>
       /\ CurMsg.verb = "DONT_INJECT"

\* C10: cleanup() never raises; a step of cleanup() never makes proc.out
\* or the pipe appear, so a call that starts with both absent changes
\* nothing; and every call, the first or a second one right after it,
\* returns with both absent.
C10_CleanupIdempotent ==
  /\ [](exc # "OSError")
  /\ [][(pc \in CleanupPcs /\ pc' # pc /\ pc' # "h_int") =>
          /\ ~logExists => ~logExists'
          /\ ~pipeExists => ~pipeExists'
          /\ pc' = "c_ret" => (~logExists' /\ ~pipeExists')
          /\ UNCHANGED <<stateFile, subjects, inj>>]_vars

\* C10 witness: get_configuration failed, so the handler's cleanup() ran
\* right after main()'s first cleanup(), and it has returned
C10_SecondCleanupReturned ==
  /\ pc = "c_ret"
  /\ cret = "exc"
  /\ exc = "IOError"
  /\ ~rrSpawned
  /\ ~logExists
  /\ ~pipeExists

\* C11: when get_message returns '' the dispatch loop ends: the read that
\* returns '' consumes nothing, and the coordinator's next step goes
\* straight to the first subject of supervision, without another read of
\* the pipe, without waiting for anything (the step is always enabled) and
\* without touching a subject, a state file or a process.
C11_EmptyReadEndsDispatch ==
  /\ []((pc = "pm_loop" /\ message = <<>>) => ENABLED WhileMessage)
  /\ [][(pc = "gm_read" /\ pc' = "pm_loop" /\ message' = <<>>) =>
          UNCHANGED <<pipeBuf, rrSent, subjects, stateFile, procVars>>]_vars
  /\ [][(pc = "pm_loop" /\ message = <<>> /\ pc' # "h_int") =>
          /\ pc' = "sup_loop"
          /\ supIdx' = 1
          /\ UNCHANGED <<pipeBuf, rrSent, rrClosed, rrdump_pipe, subjects,
                         fsVars, procVars, outVars, ctlVars>>]_vars

\* C11 witness: rr closed the pipe after a message was dispatched, the
\* read returned '' and supervision is about to take up the first subject
C11_SupervisionAfterEmptyRead ==
  /\ pc = "sup_loop"
  /\ supIdx = 1
  /\ rrClosed
  /\ pipeBuf = <<>>
  /\ rrSent >= 1
  /\ visited = <<>>
  /\ ~interrupted

\* C12: a subject taken up without a handle, or whose injector exits with
\* a non-zero status, is reported and supervision goes on: a run that
\* entered supervision and was not interrupted exits 0 having taken up
\* every subject and reported each such subject.
C12_FailureDoesNotAbort ==
  (Exited /\ ~interrupted /\ visited # <<>>) =>
    /\ exitCode = 0
    /\ Len(visited) = Len(subjects)
    /\ \A i \in 1..Len(subjects) :
         (~subjects[i].handle \/ inj[i] = "exit1") =>
           \E k \in 1..Len(reports) : reports[k] = subjects[i].event

\* C13: for every sequence of messages, a subject's pid and handle are each
\* assigned at most once: no step changes a pid that is set, and no step
\* assigns or clears a handle that is set.
C13_AssignedOnce ==
  [][\A i \in 1..Len(subjects) :
       /\ subjects[i].pid # NoPid => subjects'[i].pid = subjects[i].pid
       /\ subjects[i].handle =>
            (subjects'[i].handle /\ ~(pc = "inj_spawn" /\ sIdx = i))]_vars

\* C14: for every sequence of messages, a state file is written at most
\* once, and never written or truncated once the injector of a subject
\* using it has been spawned: no step changes a file that the coordinator
\* has already written or whose subject has a handle.
C14_StateFileWrittenOnce ==
  [][\A e \in DOMAIN stateFile :
       (\/ stateFile[e].st \in {"rewritten", "partial"}
        \/ \E i \in 1..Len(subjects) :
             subjects[i].event = e /\ subjects[i].handle) =>
         stateFile'[e] = stateFile[e]]_vars

\* C15: the dispatch loop does nothing for a message until its pid is seen
\* alive.  After a message is read the next step is the liveness test;
\* while the pid is not alive no step looks up a subject, reads or writes
\* a state file, assigns a pid, appends to other_procs, spawns an
\* injector or reads the pipe, and the message stays the current one; the
\* loop goes on to the lookup only in a state where the pid is alive.
C15_NoActionBeforeAlive ==
  /\ [][(pc = "pm_loop" /\ message # <<>> /\ pc' # "h_int") =>
          /\ pc' = "pm_alive"
          /\ UNCHANGED <<subjects, stateFile, inj, sIdx, message, pipeBuf,
                         rrSent>>]_vars
  /\ [][(pc = "pm_alive" /\ CurMsg.pid \notin alive) =>
          /\ pc' \in {"pm_alive", "h_int"}
          /\ UNCHANGED <<subjects, stateFile, inj, pipeBuf, rrSent>>
          /\ pc' = "pm_alive" => UNCHANGED <<message, sIdx, buf>>]_vars
  /\ [][(pc = "pm_alive" /\ pc' \notin {"pm_alive", "h_int"}) =>
          /\ CurMsg.pid \in alive
          /\ pc' = "pm_select"
          /\ UNCHANGED <<subjects, stateFile, inj, message, pipeBuf,
                         rrSent>>]_vars

\* C15 witness: the second message names a pid that is not alive yet; the
\* loop is waiting on it with the first message already applied
C15_WaitingOnSecondMessage ==
  /\ pc = "pm_alive"
  /\ CurMsg.pid \notin alive
  /\ rrSent = 2
  /\ \E i \in 1..Len(subjects) :
       subjects[i].handle \/ subjects[i].other_procs # <<>>

\* C16: when several subjects have the same event, every message for that
\* event is applied to the first of them in the sorted list: a dispatch
\* step that changes a subject changes only the earliest subject with the
\* message's event, and a subject that has an earlier subject with its
\* event keeps no pid, no handle, an empty other_procs and no injector.
C16_FirstDuplicateOnly ==
  /\ [](\A i \in 1..Len(subjects) :
         (\E j \in 1..(i - 1) : subjects[j].event = subjects[i].event) =>
           (subjects[i] = NewSubject(subjects[i].event) /\ inj[i] = "none"))
  /\ [][(pc \in DispatchPcs /\ subjects' # subjects) =>
          \E i \in 1..Len(subjects) :
            /\ subjects[i].event = CurMsg.event
            /\ \A j \in 1..(i - 1) : subjects[j].event # CurMsg.event
            /\ Len(subjects') = Len(subjects)
            /\ \A j \in 1..Len(subjects) :
                 j # i => (subjects'[j] = subjects[j] /\ inj'[j] = inj[j])]_vars

\* C16 witness: two subjects with the same event, two messages for that
\* event dispatched, the first subject injected and given an other_procs
\* entry
C16_DuplicateEventDispatched ==
  /\ Len(subjects) = 2
  /\ subjects[1].event = subjects[2].event
  /\ subjects[1].handle
  /\ subjects[1].other_procs # <<>>
  /\ subjects[2] = NewSubject(subjects[2].event)

\* C17: from the arrival of the interrupt to the exit the coordinator only
\* dumps the log and runs cleanup(): every step of that path leaves the
\* injectors, the live and the killed processes, the subjects with their
\* other_procs, rr and the state files as they were, and the path never
\* enters a wait on a child.
C17_InterruptLeavesProcesses ==
  [][interrupted' =>
       /\ UNCHANGED <<inj, alive, killed, subjects, rrSpawned, rrClosed,
                      rrSent, stateFile, outVars>>
       /\ pc' \in {"h_int", "exit"} \cup CleanupPcs]_vars

\* C17 witness: the coordinator has exited 0 on an interrupt while an
\* injector it spawned is still running and a process recorded in
\* other_procs is still alive and was never signalled
C17_ExitedWithChildrenRunning ==
  /\ Exited
  /\ interrupted
  /\ exitCode = 0
  /\ dumped
  /\ rrSpawned
  /\ \E i \in 1..Len(subjects) : subjects[i].handle /\ inj[i] = "running"
  /\ \E i \in 1..Len(subjects) : \E k \in 1..Len(subjects[i].other_procs) :
       /\ subjects[i].other_procs[k] \in alive
       /\ subjects[i].other_procs[k] \notin killed

\* get_message is inside its loop with a line begun, nothing left to read
\* and rr's end of the pipe closed
PartialLineAtEof ==
  /\ pc = "gm_read"
  /\ rrClosed
  /\ pipeBuf = <<>>
  /\ buf # <<>>

\* C18: get_message returns '' only from a read at end of input with no
\* byte of the current line read.  With a line begun and rr's end closed
\* get_message has no step to take: the coordinator stays in that read
\* (only an interrupt takes it out, and an interrupted run goes to the
\* handler, never back to dispatch or on to supervision).
C18_PartialLineNeverReturns ==
  /\ [][(pc = "gm_read" /\ pc' = "pm_loop" /\ message' = <<>>) =>
          (buf = <<>> /\ pipeBuf = <<>> /\ rrClosed)]_vars
  /\ [](PartialLineAtEof => ~ENABLED GetMessageRead)
  /\ [][PartialLineAtEof =>
          /\ PartialLineAtEof' \/ pc' = "h_int"
          /\ UNCHANGED <<subjects, stateFile, procVars, outVars>>]_vars
  /\ [](interrupted => pc \notin (DispatchPcs \cup SupervisePcs))

\* C18 witness: rr closed the pipe after a line without its newline; the
\* coordinator has read the bytes and is stuck in get_message, with a
\* message dispatched before and no subject supervised
C18_StuckInGetMessage ==
  /\ PartialLineAtEof
  /\ ~interrupted
  /\ rrSent >= 1
  /\ visited = <<>>

\* C19: a message whose event is the event of no subject fails the
\* dispatch loop.  The lookup step raises IndexError and changes no
\* subject, state file or process and reads nothing; from then on the
\* coordinator is in the exception handler: it reads no further message,
\* supervises no subject, runs cleanup() and exits 1.
C19_UnknownEventFails ==
  /\ [][(pc = "pm_select" /\ Operating(subjects, CurMsg.event) = {}
          /\ pc' # "h_int") =>
          /\ pc' = "h_exc"
          /\ exc' = "IndexError"
          /\ UNCHANGED <<subjects, stateFile, procVars, pipeBuf, rrSent,
                         outVars>>]_vars
  /\ []((exc = "IndexError" /\ rrSpawned) =>
          /\ pc \in {"h_exc", "exit"} \cup CleanupPcs
          /\ pc \in CleanupPcs => cret = "exc"
          /\ visited = <<>>
          /\ Exited => (exitCode = 1 /\ cret = "exc" /\ ~logExists))
  /\ [][(exc = "IndexError" /\ rrSpawned) =>
          UNCHANGED <<subjects, stateFile, procVars, pipeBuf, rrSent,
                      outVars>>]_vars

\* C19 witness: the second message named an event no subject has; the
\* coordinator has exited 1 through the handler's cleanup() with the first
\* message's effect in place and nothing supervised
C19_ExitedOnUnknownEvent ==
  /\ Exited
  /\ exc = "IndexError"
  /\ rrSpawned
  /\ rrSent = 2
  /\ exitCode = 1
  /\ cret = "exc"
  /\ visited = <<>>

\* C20: an INJECT for a subject whose state file does not exist fails at
\* the read of the file.  That step raises IOError with the subject's pid
\* and handle unassigned and changes no subject, file or process; from
\* then on the coordinator is in the exception handler: the subject stays
\* without pid and handle, no injector is spawned for it, cleanup() runs
\* and the coordinator exits 1.
C20_MissingStateFileFails ==
  /\ [][(pc = "pm_branch" /\ CurMsg.verb = "INJECT"
          /\ stateFile[subjects[sIdx].event].st = "absent"
          /\ pc' # "h_int") =>
          /\ pc' = "h_exc"
          /\ exc' = "IOError"
          /\ subjects[sIdx].pid = NoPid
          /\ ~subjects[sIdx].handle
          /\ inj[sIdx] = "none"
          /\ UNCHANGED <<subjects, stateFile, procVars, pipeBuf, rrSent,
                         outVars>>]_vars
  /\ []((exc = "IOError" /\ rrSpawned /\ ~interrupted) =>
          /\ pc \in {"h_exc", "exit"} \cup CleanupPcs
          /\ pc \in CleanupPcs => cret = "exc"
          /\ visited = <<>>
          /\ \A i \in 1..Len(subjects) :
               stateFile[subjects[i].event].st = "absent" =>
                 (subjects[i].pid = NoPid /\ ~subjects[i].handle
                  /\ inj[i] = "none")
          /\ Exited => (exitCode = 1 /\ cret = "exc" /\ ~logExists))
  /\ [][(exc = "IOError" /\ rrSpawned /\ ~interrupted) =>
          UNCHANGED <<subjects, stateFile, procVars, pipeBuf, rrSent,
                      outVars>>]_vars

\* C20 witness: the second message was an INJECT for a subject with no
\* state file; the coordinator has exited 1 through the handler's
\* cleanup(), that subject still without pid and handle
C20_ExitedOnMissingStateFile ==
  /\ Exited
  /\ exc = "IOError"
  /\ rrSpawned
  /\ ~interrupted
  /\ rrSent = 2
  /\ exitCode = 1
  /\ cret = "exc"
  /\ \E i \in 1..Len(subjects) :
       /\ stateFile[subjects[i].event].st = "absent"
       /\ subjects[i].pid = NoPid
       /\ ~subjects[i].handle

====
